---- MODULE Spec2Model ----
(***************************************************************************)
(* Model of the Cardano wallet scripts of this repository:                 *)
(*   - manageWallets, fetchBalance, balanceCheckAndTransfer and sendAda    *)
(*     of src/unnamed/part_000 (the wallet manager with the transfer),     *)
(*   - manageWallets of src/wallet_manager.js (the same run without the    *)
(*     transfer),                                                          *)
(*   - generateWallets / generateWalletSet / fetchUTXOs of src/index.js.   *)
(* Every await on the Blockfrost client is two steps: the call is issued   *)
(* (it is then in flight) and the reply arrives; the reply is chosen by    *)
(* the environment.  The synchronous code between two awaits is one step.  *)
(***************************************************************************)
EXTENDS Integers, Sequences, FiniteSets, TLC

\* ---------------------------------------------------------------- bounds
\* Largest number of wallet records in a stored wallet file.
MaxWallets == 2
\* Largest number of UTXOs in one reply of addressesUtxos.
MaxUtxos == 3

\* ------------------------------------------------------ program constants
\* part_000:194  const feeBuffer = 200000
feeBuffer == 200000
\* part_000:94 / :191  lovelace per ADA
LovelacePerAda == 1000000
\* part_000:266  TTL: current slot + 10000 slots
TtlWindow == 10000
\* index.js:194-203  walletTypes: 'gas-tank', 3 operators, 2 ADA holding wallets
walletTypes == <<"gas-tank", "operator-1", "operator-2", "operator-3",
                 "ada-holding-1", "ada-holding-2">>

\* ------------------------------------------------ values of the environment
\* Entry points (scripts) of the repository, and sendAda driven on its own.
Entries == {"part_000", "wallet_manager.js", "index.js", "sendAda"}
\* process.env.BLOCKFROST_API_KEY || ''
ProjectIds == {"", "project_key"}
\* The calls of the Blockfrost client the code makes.
Apis == {"addresses", "addressesUtxos", "blocksLatest", "epochsParameters", "txSubmit"}
\* Lovelace quantities an address can report (decimal strings, read as numbers).
BalanceQuantities == {0, 3000000, 10000000}
\* Lovelace quantities a UTXO can hold.
UtxoQuantities == {200000, 1000000, 5000000}
\* status_code of a failed call: 404 is "not found", 500 stands for every other.
StatusCodes == {404, 500}
\* amountAda values sendAda is driven with on its own, as fractions num/den.
SendAmounts == {[num |-> 1, den |-> 1], [num |-> 1, den |-> 3], [num |-> 5, den |-> 2]}

LovelaceEntry(q) == [unit |-> "lovelace", quantity |-> q]
TokenEntry == [unit |-> "token", quantity |-> 7]
\* The amount array of an address: no lovelace entry, or one (alone or after a token).
AddressAmounts ==
  {<<>>} \cup {<<LovelaceEntry(q)>> : q \in BalanceQuantities}
         \cup {<<TokenEntry, LovelaceEntry(3000000)>>}
\* The amount array of a UTXO.
UtxoAmounts ==
  {<<TokenEntry>>} \cup {<<LovelaceEntry(q)>> : q \in UtxoQuantities}

\* Replies of blockfrostAPI.addresses(address).
AddressReplies ==
  [ok : {TRUE}, status_code : {200}, amount : AddressAmounts, tx_count : {0, 1}]
  \cup [ok : {FALSE}, status_code : StatusCodes, amount : {<<>>}, tx_count : {0}]

\* A UTXO list of n entries; the k-th entry is output 0 of transaction k.
UtxoLists(n) ==
  {[k \in 1..n |-> [tx_hash |-> k, output_index |-> 0, amount |-> f[k]]] :
     f \in [1..n -> UtxoAmounts]}
\* Replies of blockfrostAPI.addressesUtxos(address).
UtxoReplies ==
  [ok : {TRUE}, status_code : {200}, utxos : UNION {UtxoLists(n) : n \in 0..MaxUtxos}]
  \cup [ok : {FALSE}, status_code : StatusCodes, utxos : {<<>>}]
\* Replies of blocksLatest, epochsParameters and txSubmit.
BlockReplies ==
  [ok : {TRUE}, status_code : {200}, slot : {500}, epoch : {7}]
  \cup [ok : {FALSE}, status_code : {500}, slot : {0}, epoch : {0}]
PlainReplies == [ok : BOOLEAN]

\* ------------------------------------------------------------- pure helpers
RECURSIVE SumSeq(_)
SumSeq(s) ==
  IF s = <<>> THEN 0 ELSE s[1] + SumSeq(Tail(s))

\* amount.find(a => a.unit === 'lovelace')?.quantity || '0'  then parseInt
LovelaceOf(amount) ==
  LET idx == {k \in 1..Len(amount) : amount[k].unit = "lovelace"}
  IN IF idx = {} THEN 0
     ELSE amount[CHOOSE k \in idx : \A m \in idx : k <= m].quantity

\* (parseInt(lovelace) / 1000000).toFixed(6): integer part and six decimals.
ToFixed6(lovelace) ==
  [int |-> lovelace \div LovelacePerAda, frac |-> lovelace % LovelacePerAda]

\* parseFloat of a toFixed(6) string, kept in millionths.
parseFloat(str) ==
  str.int * LovelacePerAda + str.frac

\* Math.floor(amountAda * 1000000)
AmountLovelace(amountAda) ==
  (amountAda.num * LovelacePerAda) \div amountAda.den

\* return { ada: '0', lovelace: '0' }
ZeroBalance == [ada |-> ToFixed6(0), lovelace |-> 0]

\* ------------------------------------------------------------ wallet records
\* bip39.generateMnemonic(256): the n-th mnemonic generated in this run.
generateMnemonic(n) == <<"generated", n>>

\* Key derivation and address encoding are deterministic in the mnemonic.
deriveAddress(mnemonic) == <<"addr_test", mnemonic>>

\* createTestnetWallet() with the n-th fresh mnemonic.
createTestnetWallet(n) ==
  [mnemonic |-> generateMnemonic(n),
   address  |-> deriveAddress(generateMnemonic(n)),
   type     |-> "Testnet Address"]

\* bip39.mnemonicToEntropy(mnemonic) accepts the mnemonics bip39 generated.
validateMnemonic(mnemonic) == mnemonic[1] \in {"generated", "stored"}

\* The key of the staking role, derive(2).derive(0), in place of the spending key.
spendingPrivateKey_StakeRole(mnemonic) == <<"m/1852'/1815'/0'/2/0", mnemonic>>

\* getPrivateKeyFromMnemonic(mnemonic).derive(0).derive(0): the spending private key.
spendingPrivateKey(mnemonic) == <<"m/1852'/1815'/0'/0/0", mnemonic>>

\* A wallet record as an earlier run stored it.
StoredWallet(n) ==
  [name     |-> <<"Wallet", n>>,
   address  |-> deriveAddress(<<"stored", n>>),
   mnemonic |-> <<"stored", n>>,
   type     |-> "Testnet Address"]

\* A sender whose mnemonic is not one bip39 accepts.
MistypedWallet ==
  [name     |-> <<"Wallet", 0>>,
   address  |-> deriveAddress(<<"stored", 0>>),
   mnemonic |-> <<"mistyped", 0>>,
   type     |-> "Testnet Address"]

AbsentFile == [exists |-> FALSE, parses |-> FALSE, records |-> <<>>]
\* A file that is there but that readFileSync or JSON.parse rejects.
CorruptFile == [exists |-> TRUE, parses |-> FALSE, records |-> <<>>]
StoredFile(n) == [exists |-> TRUE, parses |-> TRUE, records |-> [k \in 1..n |-> StoredWallet(k)]]
\* The states wallets.txt can be in when a run starts.
WalletFiles == {AbsentFile, CorruptFile} \cup {StoredFile(n) : n \in 0..MaxWallets}

\* loadWalletsFromFile(file): <<records>>, or <<>> for null.
loadWalletsFromFile(file) ==
  IF file.exists /\ file.parses THEN <<file.records>> ELSE <<>>

\* saveWalletsToFile with the mnemonic left out of the mapped record.
saveWalletsToFile_DropsMnemonic(wallets) ==
  [exists |-> TRUE, parses |-> TRUE,
   records |-> [k \in 1..Len(wallets) |->
                  [name    |-> wallets[k].name,
                   address |-> wallets[k].address,
                   type    |-> wallets[k].type]]]

\* saveWalletsToFile(wallets): the file after writeFileSync.
saveWalletsToFile(wallets) ==
  [exists |-> TRUE, parses |-> TRUE,
   records |-> [k \in 1..Len(wallets) |->
                  [name     |-> wallets[k].name,
                   address  |-> wallets[k].address,
                   mnemonic |-> wallets[k].mnemonic,
                   type     |-> wallets[k].type]]]

\* { ...createTestnetWallet(), name: 'Wallet n' }
Named(wallet, n) ==
  [name |-> <<"Wallet", n>>, address |-> wallet.address,
   mnemonic |-> wallet.mnemonic, type |-> wallet.type]

\* The wallets array manageWallets creates when there is no stored set.
NewWallets ==
  <<Named(createTestnetWallet(1), 1), Named(createTestnetWallet(2), 2)>>

\* ------------------------------------------------------------- fetchBalance
\* The balance fetchBalance returns for a reply of blockfrostAPI.addresses.
fetchBalanceResult(reply) ==
  IF reply.ok
    THEN [lovelace |-> LovelaceOf(reply.amount),
          ada      |-> ToFixed6(LovelaceOf(reply.amount))]
    ELSE IF reply.status_code = 404
      THEN ZeroBalance   \* inner catch: address not found/used yet
      ELSE ZeroBalance   \* rethrown, caught by the outer catch

\* fetchBalance without the inner catch: a 404 reaches the outer catch too.
fetchBalanceReports_NotFoundToo(reply) ==
  ~reply.ok

\* Whether fetchBalance logs the reply with console.error (the outer catch).
fetchBalanceReports(reply) ==
  ~reply.ok /\ reply.status_code # 404

\* ------------------------------------------------- balanceCheckAndTransfer
\* walletsWithBalance.push({...wallet, balance: {ada: parseFloat(..), lovelace}})
WithBalance(wallet, bal) ==
  [name |-> wallet.name, address |-> wallet.address, mnemonic |-> wallet.mnemonic,
   type |-> wallet.type,
   balance |-> [ada |-> parseFloat(bal.ada), lovelace |-> bal.lovelace]]

\* The comparator with its operands swapped: an ascending sort.
compareFn_Ascending(a, b) == a.balance.ada - b.balance.ada

\* The comparator of the sort: (a, b) => b.balance.ada - a.balance.ada
compareFn(a, b) == b.balance.ada - a.balance.ada

\* Array.prototype.sort with compareFn: a stable insertion of each element
\* behind every element that must not come after it.
RECURSIVE InsertSorted(_, _)
InsertSorted(sorted, x) ==
  IF sorted = <<>> THEN <<x>>
  ELSE IF compareFn(sorted[1], x) <= 0
    THEN <<sorted[1]>> \o InsertSorted(Tail(sorted), x)
    ELSE <<x>> \o sorted

RECURSIVE SortWallets(_)
SortWallets(ws) ==
  IF ws = <<>> THEN <<>>
  ELSE InsertSorted(SortWallets(SubSeq(ws, 1, Len(ws) - 1)), ws[Len(ws)])

\* The comparison of the first two balances with ties counted as more.
TransferNeeded_NonStrict(sorted) ==
  sorted[1].balance.ada >= sorted[2].balance.ada

\* if (walletsWithBalance[0].balance.ada > walletsWithBalance[1].balance.ada)
TransferNeeded(sorted) ==
  sorted[1].balance.ada > sorted[2].balance.ada

\* ------------------------------------------------------------------ sendAda
\* CardanoWasm.TransactionInput.new(hash, index)
TransactionInput(utxo) ==
  [tx_hash |-> utxo.tx_hash, output_index |-> utxo.output_index]

\* The loop without its break: every UTXO of the list is added.
RECURSIVE SelectInputs_NoBreak(_, _, _, _, _)
SelectInputs_NoBreak(list, k, inputs, total, threshold) ==
  IF k > Len(list) THEN [txInputs |-> inputs, totalInputAmount |-> total]
  ELSE SelectInputs_NoBreak(list, k + 1, Append(inputs, TransactionInput(list[k])),
                            total + LovelaceOf(list[k].amount), threshold)

\* The loop over the UTXOs from position k on: every UTXO visited is added, and
\* the loop breaks once the total has reached the threshold.
RECURSIVE SelectInputs(_, _, _, _, _)
SelectInputs(list, k, inputs, total, threshold) ==
  IF k > Len(list) THEN [txInputs |-> inputs, totalInputAmount |-> total]
  ELSE LET inputs2 == Append(inputs, TransactionInput(list[k]))
           total2  == total + LovelaceOf(list[k].amount)
       IN IF total2 >= threshold
            THEN [txInputs |-> inputs2, totalInputAmount |-> total2]
            ELSE SelectInputs(list, k + 1, inputs2, total2, threshold)

\* The funds check with the fee buffer forgotten.
NotEnoughFunds_IgnoresFee(total, amountLovelace) ==
  total < amountLovelace

\* if (totalInputAmount < amountLovelace + feeBuffer) return false
NotEnoughFunds(total, amountLovelace) ==
  total < amountLovelace + feeBuffer

\* The change with the fee buffer forgotten.
ChangeAmount_IgnoresFee(total, amountLovelace) ==
  total - amountLovelace

\* const changeAmount = totalInputAmount - amountLovelace - feeBuffer
ChangeAmount(total, amountLovelace) ==
  total - amountLovelace - feeBuffer

\* The change test with >= for >.
HasChange_AllowsZero(changeAmount) ==
  changeAmount >= 0

\* if (changeAmount > 0) the change output is added
HasChange(changeAmount) ==
  changeAmount > 0

\* txOutputs: the output to the recipient, then the change back to the sender.
BuildOutputs(senderAddress, receiverAddress, amountLovelace, total) ==
  LET recipientOutput == [address |-> receiverAddress, value |-> amountLovelace]
      changeAmount == ChangeAmount(total, amountLovelace)
  IN IF HasChange(changeAmount)
       THEN <<recipientOutput, [address |-> senderAddress, value |-> changeAmount]>>
       ELSE <<recipientOutput>>

\* CardanoWasm.TransactionBody.new(txInputs, txOutputs, fee, ttl)
TransactionBody(inputs, outputs, latestSlot) ==
  [inputs |-> inputs, outputs |-> outputs, fee |-> feeBuffer,
   ttl |-> latestSlot + TtlWindow]

\* CardanoWasm.hash_transaction(txBody)
hash_transaction(body) == <<"blake2b256", body>>

\* CardanoWasm.make_vkey_witness(txBodyHash, key)
make_vkey_witness(txBodyHash, key) == [vkey |-> key, signed |-> txBodyHash]

\* CardanoWasm.Transaction.new(txBody, witnesses, undefined)
Transaction(body, vkeys) ==
  [body |-> body, witnesses |-> vkeys, metadata |-> "undefined"]

\* transaction.to_bytes(): the CBOR encoding, that decodes to the transaction.
to_bytes(tx) == <<"cbor", tx>>

\* -------------------------------------------------------------------- state
VARIABLES
  entry,              \* the script that runs
  projectId,          \* blockfrostAPI.projectId
  walletFile,         \* wallets.txt
  fileAtStart,        \* wallets.txt as the run found it (history)
  pc,                 \* where the run stands
  existingWallets,    \* manageWallets: the loaded wallets
  created,            \* the wallets created by this run
  i,                  \* index of the running for-of loop
  balance,            \* the last value fetchBalance returned
  lookup,             \* the last lookup: its reply and whether it was logged as an error
  walletsWithBalance, \* balanceCheckAndTransfer: the wallets with their balances
  failedLookups,      \* addresses whose balance in walletsWithBalance replaced a failed lookup
  transferResult,     \* what balanceCheckAndTransfer returned, if it has
  sendArgs,           \* the arguments of the call of sendAda, if it was called
  utxos,              \* sendAda: the UTXOs fetched, if they were
  txInputs,           \* sendAda: the inputs selected
  totalInputAmount,   \* sendAda: their total
  txOutputs,          \* sendAda: the outputs
  latestBlock,        \* sendAda: the latest block, if fetched
  txBody,             \* sendAda: the transaction body, if built
  transaction,        \* sendAda: the signed transaction, if assembled
  txBytes,            \* sendAda: the bytes handed to txSubmit, if serialized
  sendAdaResult,      \* what sendAda returned and logged, if it has
  formatted,          \* index.js: the last value fetchUTXOs returned
  inFlight,           \* the calls of the Blockfrost client awaiting their reply
  calls               \* how often each call of the Blockfrost client was issued

envVars == <<entry, projectId, fileAtStart>>
mwVars == <<walletFile, existingWallets, created>>
bcVars == <<walletsWithBalance, failedLookups>>
saVars == <<utxos, txInputs, totalInputAmount, txOutputs, latestBlock, txBody, transaction,
           txBytes>>
vars == <<entry, projectId, walletFile, fileAtStart, pc, existingWallets, created, i,
          balance, lookup, walletsWithBalance, failedLookups, transferResult, sendArgs,
          utxos, txInputs, totalInputAmount, txOutputs, latestBlock, txBody, transaction,
          txBytes, sendAdaResult, formatted, inFlight, calls>>

\* What is remembered of a lookup: the call that was answered, the reply's
\* status, and whether the function logged it with console.error.
NoLookup == [api |-> "none", ok |-> TRUE, status_code |-> 0, reported |-> FALSE]
SkippedLookup == [api |-> "skipped", ok |-> TRUE, status_code |-> 0, reported |-> FALSE]
Lookup(api, reply, reported) ==
  [api |-> api, ok |-> reply.ok, status_code |-> reply.status_code, reported |-> reported]

Init ==
  /\ entry \in Entries
  /\ projectId \in ProjectIds
  /\ walletFile \in (IF entry \in {"part_000", "wallet_manager.js"}
                       THEN WalletFiles ELSE {AbsentFile})
  /\ fileAtStart = walletFile
  /\ pc = CASE entry = "index.js" -> "gw_loop"
            [] entry = "sendAda"  -> "sa_start"
            [] OTHER              -> "mw_start"
  /\ existingWallets = <<>>
  /\ created = <<>>
  /\ i = 1
  /\ balance = ZeroBalance
  /\ lookup = NoLookup
  /\ walletsWithBalance = <<>>
  /\ failedLookups = {}
  /\ transferResult = <<>>
  /\ sendArgs \in (IF entry = "sendAda"
                     THEN {<<[senderWallet |-> StoredWallet(1),
                              receiverAddress |-> StoredWallet(2).address,
                              amountAda |-> a]>> : a \in SendAmounts}
                          \cup {<<[senderWallet |-> MistypedWallet,
                                   receiverAddress |-> StoredWallet(2).address,
                                   amountAda |-> [num |-> 1, den |-> 1]]>>}
                     ELSE {<<>>})
  /\ utxos = <<>>
  /\ txInputs = <<>>
  /\ totalInputAmount = 0
  /\ txOutputs = <<>>
  /\ latestBlock = <<>>
  /\ txBody = <<>>
  /\ transaction = <<>>
  /\ txBytes = <<>>
  /\ sendAdaResult = <<>>
  /\ formatted = <<>>
  /\ inFlight = {}
  /\ calls = [a \in Apis |-> 0]

\* The API-key check with its result ignored: the lookup is always made.
NoApiKey_Never == FALSE

\* if (!blockfrostAPI.projectId || blockfrostAPI.projectId === '')
NoApiKey == projectId = ""

\* An awaited call of the Blockfrost client is issued.
Issue(api) ==
  /\ inFlight' = inFlight \cup {api}
  /\ calls' = [calls EXCEPT ![api] = @ + 1]

\* The reply of a call arrives and the function goes on without another call.
Settle(api) ==
  /\ inFlight' = inFlight \ {api}
  /\ UNCHANGED calls

\* The reply of a call arrives and the function goes on to await the next call.
SettleAndIssue(api, next) ==
  /\ inFlight' = (inFlight \ {api}) \cup {next}
  /\ calls' = [calls EXCEPT ![next] = @ + 1]

\* ------------------------------------------------------------ manageWallets
\* manageWallets up to its first await: load the wallets; without a stored set,
\* create two wallets and save them, which ends the run.
ManageWalletsStart ==
  /\ pc = "mw_start"
  /\ LET loaded == loadWalletsFromFile(walletFile)
     IN IF loaded # <<>>
          THEN /\ existingWallets' = loaded[1]
               /\ pc' = "mw_loop"
               /\ UNCHANGED <<walletFile, created>>
          ELSE /\ created' = NewWallets
               /\ walletFile' = saveWalletsToFile(NewWallets)
               /\ pc' = "done"
               /\ UNCHANGED existingWallets
  /\ i' = 1
  /\ UNCHANGED <<envVars, balance, lookup, bcVars, transferResult, sendArgs, saVars,
                 sendAdaResult, formatted, inFlight, calls>>

\* fetchBalance returns bal to the loop at site ("mw": manageWallets,
\* "bc": balanceCheckAndTransfer); failed tells a lookup that threw.
FetchBalanceReturn(site, bal, failed) ==
  /\ balance' = bal
  /\ i' = i + 1
  /\ pc' = IF site = "mw" THEN "mw_loop" ELSE "bc_loop"
  /\ IF site = "bc"
       THEN /\ walletsWithBalance' =
                 Append(walletsWithBalance, WithBalance(existingWallets[i], bal))
            /\ failedLookups' = failedLookups \cup
                 (IF failed THEN {existingWallets[i].address} ELSE {})
       ELSE UNCHANGED bcVars

\* The loop calls fetchBalance(wallet.address): without an API key it returns the
\* zero balance at once, else blockfrostAPI.addresses(address) is awaited.
FetchBalanceCall(site) ==
  /\ pc = (IF site = "mw" THEN "mw_loop" ELSE "bc_loop")
  /\ i <= Len(existingWallets)
  /\ IF NoApiKey
       THEN /\ FetchBalanceReturn(site, ZeroBalance, FALSE)
            /\ lookup' = SkippedLookup
            /\ UNCHANGED <<inFlight, calls>>
       ELSE /\ Issue("addresses")
            /\ pc' = (IF site = "mw" THEN "mw_wait" ELSE "bc_wait")
            /\ UNCHANGED <<i, balance, lookup, bcVars>>
  /\ UNCHANGED <<envVars, mwVars, transferResult, sendArgs, saVars, sendAdaResult,
                 formatted>>

\* The reply of blockfrostAPI.addresses arrives in fetchBalance.
FetchBalanceReply(site) ==
  /\ pc = (IF site = "mw" THEN "mw_wait" ELSE "bc_wait")
  /\ "addresses" \in inFlight
  /\ Settle("addresses")
  /\ \E reply \in AddressReplies :
       /\ FetchBalanceReturn(site, fetchBalanceResult(reply), fetchBalanceReports(reply))
       /\ lookup' = Lookup("addresses", reply, fetchBalanceReports(reply))
  /\ UNCHANGED <<envVars, mwVars, transferResult, sendArgs, saVars, sendAdaResult,
                 formatted>>

\* The display loop of manageWallets is over: part_000 goes on with
\* balanceCheckAndTransfer(existingWallets), wallet_manager.js is done.
ManageWalletsLoopEnd ==
  /\ pc = "mw_loop"
  /\ i > Len(existingWallets)
  /\ IF entry = "part_000"
       THEN IF Len(existingWallets) < 2
              THEN /\ transferResult' = <<FALSE>>
                   /\ pc' = "done"
              ELSE /\ pc' = "bc_loop"
                   /\ UNCHANGED transferResult
       ELSE /\ pc' = "done"
            /\ UNCHANGED transferResult
  /\ i' = 1
  /\ UNCHANGED <<envVars, mwVars, balance, lookup, bcVars, sendArgs, saVars,
                 sendAdaResult, formatted, inFlight, calls>>

\* The decision with a balance looked up again, unawaited, before sendAda is called.
Decide_Refetch ==
  /\ pc = "bc_loop"
  /\ i > Len(existingWallets)
  /\ LET sorted == SortWallets(walletsWithBalance)
     IN /\ walletsWithBalance' = sorted
        /\ IF TransferNeeded(sorted)
             THEN /\ sendArgs' = <<[senderWallet |-> sorted[1],
                                    receiverAddress |-> sorted[2].address,
                                    amountAda |-> [num |-> 1, den |-> 1]]>>
                  /\ pc' = "sa_start"
                  /\ Issue("addresses")
                  /\ UNCHANGED transferResult
             ELSE /\ transferResult' = <<FALSE>>
                  /\ pc' = "done"
                  /\ UNCHANGED <<sendArgs, inFlight, calls>>
  /\ UNCHANGED <<envVars, mwVars, i, balance, lookup, failedLookups, saVars,
                 sendAdaResult, formatted>>

\* All balances are fetched: sort, compare the first two, and either call
\* sendAda(walletsWithBalance[0], walletsWithBalance[1].address, 1.0) or return false.
Decide ==
  /\ pc = "bc_loop"
  /\ i > Len(existingWallets)
  /\ LET sorted == SortWallets(walletsWithBalance)
     IN /\ walletsWithBalance' = sorted
        /\ IF TransferNeeded(sorted)
             THEN /\ sendArgs' = <<[senderWallet |-> sorted[1],
                                    receiverAddress |-> sorted[2].address,
                                    amountAda |-> [num |-> 1, den |-> 1]]>>
                  /\ pc' = "sa_start"
                  /\ UNCHANGED transferResult
             ELSE /\ transferResult' = <<FALSE>>
                  /\ pc' = "done"
                  /\ UNCHANGED sendArgs
  /\ UNCHANGED <<envVars, mwVars, i, balance, lookup, failedLookups, saVars,
                 sendAdaResult, formatted, inFlight, calls>>

\* ------------------------------------------------------------------ sendAda
\* sendAda returns success after logging log; called by balanceCheckAndTransfer,
\* that returns the same value.
SendAdaReturn(success, log) ==
  /\ sendAdaResult' = <<[success |-> success, log |-> log]>>
  /\ transferResult' = IF entry = "sendAda" THEN transferResult ELSE <<success>>
  /\ pc' = "done"

\* The catch of sendAda: stage threw or was rejected; the error is logged and
\* false is returned.
SendAdaCatch(stage) ==
  /\ SendAdaReturn(FALSE, "Error sending ADA")
  /\ lookup' = [api |-> stage, ok |-> FALSE, status_code |-> 500, reported |-> TRUE]

\* The catch of sendAda entered, but with the broadcast made all the same.
SendAdaStart_SubmitsAnyway ==
  /\ pc = "sa_start"
  /\ IF validateMnemonic(sendArgs[1].senderWallet.mnemonic)
       THEN /\ Issue("addressesUtxos")
            /\ pc' = "sa_utxos_wait"
            /\ UNCHANGED <<lookup, transferResult, sendAdaResult>>
       ELSE /\ SendAdaCatch("getPrivateKeyFromMnemonic")
            /\ Issue("txSubmit")
  /\ UNCHANGED <<envVars, mwVars, i, balance, bcVars, sendArgs, saVars, formatted>>

\* sendAda up to its first await: the keys (getPrivateKeyFromMnemonic throws on
\* a mnemonic that is not valid), the amount, then
\* await blockfrostAPI.addressesUtxos(senderWallet.address).
SendAdaStart ==
  /\ pc = "sa_start"
  /\ IF validateMnemonic(sendArgs[1].senderWallet.mnemonic)
       THEN /\ Issue("addressesUtxos")
            /\ pc' = "sa_utxos_wait"
            /\ UNCHANGED <<lookup, transferResult, sendAdaResult>>
       ELSE /\ SendAdaCatch("getPrivateKeyFromMnemonic")
            /\ UNCHANGED <<inFlight, calls>>
  /\ UNCHANGED <<envVars, mwVars, i, balance, bcVars, sendArgs, saVars, formatted>>

\* The UTXOs arrive: select the inputs, check the funds, build the outputs, then
\* await blockfrostAPI.blocksLatest().
SendAdaUtxosReply ==
  /\ pc = "sa_utxos_wait"
  /\ "addressesUtxos" \in inFlight
  /\ \E reply \in UtxoReplies :
       LET amountLovelace == AmountLovelace(sendArgs[1].amountAda)
           sel == SelectInputs(reply.utxos, 1, <<>>, 0, amountLovelace + feeBuffer)
       IN IF ~reply.ok
            THEN /\ SendAdaCatch("addressesUtxos")
                 /\ Settle("addressesUtxos")
                 /\ UNCHANGED <<utxos, txInputs, totalInputAmount, txOutputs>>
            ELSE /\ utxos' = <<reply.utxos>>
                 /\ UNCHANGED lookup
                 /\ IF Len(reply.utxos) = 0
                      THEN /\ SendAdaReturn(FALSE, "No UTXOs found")
                           /\ Settle("addressesUtxos")
                           /\ UNCHANGED <<txInputs, totalInputAmount, txOutputs>>
                      ELSE /\ txInputs' = sel.txInputs
                           /\ totalInputAmount' = sel.totalInputAmount
                           /\ IF NotEnoughFunds(sel.totalInputAmount, amountLovelace)
                                THEN /\ SendAdaReturn(FALSE, "Not enough funds")
                                     /\ Settle("addressesUtxos")
                                     /\ UNCHANGED txOutputs
                                ELSE /\ txOutputs' =
                                          BuildOutputs(sendArgs[1].senderWallet.address,
                                                       sendArgs[1].receiverAddress,
                                                       amountLovelace,
                                                       sel.totalInputAmount)
                                     /\ SettleAndIssue("addressesUtxos", "blocksLatest")
                                     /\ pc' = "sa_block_wait"
                                     /\ UNCHANGED <<sendAdaResult, transferResult>>
  /\ UNCHANGED <<envVars, mwVars, i, balance, bcVars, sendArgs, latestBlock,
                 txBody, transaction, txBytes, formatted>>

\* The latest block arrives and epochsParameters is called without await: the
\* body is built while that call is in flight.
SendAdaBlockReply_NoAwait ==
  /\ pc = "sa_block_wait"
  /\ "blocksLatest" \in inFlight
  /\ \E reply \in BlockReplies :
       IF reply.ok
         THEN /\ latestBlock' = <<[slot |-> reply.slot, epoch |-> reply.epoch]>>
              /\ SettleAndIssue("blocksLatest", "epochsParameters")
              /\ pc' = "sa_build"
              /\ UNCHANGED <<sendAdaResult, transferResult, lookup>>
         ELSE /\ SendAdaCatch("blocksLatest")
              /\ Settle("blocksLatest")
              /\ UNCHANGED latestBlock
  /\ UNCHANGED <<envVars, mwVars, i, balance, bcVars, sendArgs, utxos, txInputs,
                 totalInputAmount, txOutputs, txBody, transaction, txBytes, formatted>>

\* The latest block arrives: await blockfrostAPI.epochsParameters(latestBlock.epoch).
SendAdaBlockReply ==
  /\ pc = "sa_block_wait"
  /\ "blocksLatest" \in inFlight
  /\ \E reply \in BlockReplies :
       IF reply.ok
         THEN /\ latestBlock' = <<[slot |-> reply.slot, epoch |-> reply.epoch]>>
              /\ SettleAndIssue("blocksLatest", "epochsParameters")
              /\ pc' = "sa_params_wait"
              /\ UNCHANGED <<sendAdaResult, transferResult, lookup>>
         ELSE /\ SendAdaCatch("blocksLatest")
              /\ Settle("blocksLatest")
              /\ UNCHANGED latestBlock
  /\ UNCHANGED <<envVars, mwVars, i, balance, bcVars, sendArgs, utxos, txInputs,
                 totalInputAmount, txOutputs, txBody, transaction, txBytes, formatted>>

\* The protocol parameters arrive.
SendAdaParamsReply ==
  /\ pc = "sa_params_wait"
  /\ "epochsParameters" \in inFlight
  /\ Settle("epochsParameters")
  /\ \E reply \in PlainReplies :
       IF reply.ok
         THEN /\ pc' = "sa_build"
              /\ UNCHANGED <<sendAdaResult, transferResult, lookup>>
         ELSE SendAdaCatch("epochsParameters")
  /\ UNCHANGED <<envVars, mwVars, i, balance, bcVars, sendArgs, saVars, formatted>>

\* const txBody = CardanoWasm.TransactionBody.new(...)
SendAdaBuildBody ==
  /\ pc = "sa_build"
  /\ txBody' = <<TransactionBody(txInputs, txOutputs, latestBlock[1].slot)>>
  /\ pc' = "sa_sign"
  /\ UNCHANGED <<envVars, mwVars, i, balance, lookup, bcVars, transferResult, sendArgs,
                 utxos, txInputs, totalInputAmount, txOutputs, latestBlock, transaction,
                 txBytes,                  sendAdaResult, formatted, inFlight, calls>>

\* The witness over the hash of the body, the signed transaction and its bytes.
SendAdaSign ==
  /\ pc = "sa_sign"
  /\ LET txBodyHash == hash_transaction(txBody[1])
         key == spendingPrivateKey(sendArgs[1].senderWallet.mnemonic)
         tx == Transaction(txBody[1], <<make_vkey_witness(txBodyHash, key)>>)
     IN /\ transaction' = <<tx>>
        /\ txBytes' = <<to_bytes(tx)>>
  /\ pc' = "sa_submit"
  /\ UNCHANGED <<envVars, mwVars, i, balance, lookup, bcVars, transferResult, sendArgs,
                 utxos, txInputs, totalInputAmount, txOutputs, latestBlock, txBody,
                 sendAdaResult, formatted, inFlight, calls>>

\* await blockfrostAPI.txSubmit(Buffer.from(txBytes))
SendAdaSubmit ==
  /\ pc = "sa_submit"
  /\ Issue("txSubmit")
  /\ pc' = "sa_submit_wait"
  /\ UNCHANGED <<envVars, mwVars, i, balance, lookup, bcVars, transferResult, sendArgs,
                 saVars, sendAdaResult, formatted>>

\* The broadcast is answered, and submitted once more when it was rejected.
SendAdaSubmitReply_Retry ==
  /\ pc = "sa_submit_wait"
  /\ "txSubmit" \in inFlight
  /\ \E reply \in PlainReplies :
       IF reply.ok
         THEN /\ SendAdaReturn(TRUE, "Transaction submitted successfully")
              /\ Settle("txSubmit")
              /\ UNCHANGED lookup
         ELSE /\ SettleAndIssue("txSubmit", "txSubmit")
              /\ UNCHANGED <<pc, lookup, sendAdaResult, transferResult>>
  /\ UNCHANGED <<envVars, mwVars, i, balance, bcVars, sendArgs, saVars, formatted>>

\* The broadcast is answered: true on acceptance, false from the catch otherwise.
SendAdaSubmitReply ==
  /\ pc = "sa_submit_wait"
  /\ "txSubmit" \in inFlight
  /\ Settle("txSubmit")
  /\ \E reply \in PlainReplies :
       IF reply.ok
         THEN /\ SendAdaReturn(TRUE, "Transaction submitted successfully")
              /\ UNCHANGED lookup
         ELSE SendAdaCatch("txSubmit")
  /\ UNCHANGED <<envVars, mwVars, i, balance, bcVars, sendArgs, saVars, formatted>>

\* --------------------------------------------------- index.js: fetchUTXOs
\* utxos.map(utxo => ({txHash, outputIndex, lovelace, ada, assets}))
FormatUtxos(list) ==
  [k \in 1..Len(list) |->
     [txHash      |-> list[k].tx_hash,
      outputIndex |-> list[k].output_index,
      lovelace    |-> LovelaceOf(list[k].amount),
      ada         |-> ToFixed6(LovelaceOf(list[k].amount)),
      assets      |-> SelectSeq(list[k].amount, LAMBDA a : a.unit # "lovelace")]]

\* Whether fetchUTXOs logs a reply of blockfrostAPI.addresses with console.error:
\* the inner catch returns [] on 404 and rethrows the rest to the outer catch.
fetchUTXOsReports(reply) ==
  ~reply.ok /\ reply.status_code # 404

\* fetchUTXOs returns list to the loop of generateWalletSet, which goes on.
FetchUtxosReturn(list, seen) ==
  /\ formatted' = list
  /\ lookup' = seen
  /\ i' = i + 1
  /\ pc' = "gw_loop"

\* One turn of the loop of generateWalletSet up to its first await: a new wallet,
\* then fetchUTXOs(walletData.address), which without an API key returns [] at
\* once and else awaits blockfrostAPI.addresses(address).
GenerateWallet ==
  /\ pc = "gw_loop"
  /\ i <= Len(walletTypes)
  /\ created' = Append(created, createTestnetWallet(i))
  /\ IF NoApiKey
       THEN /\ FetchUtxosReturn(<<>>, SkippedLookup)
            /\ UNCHANGED <<inFlight, calls>>
       ELSE /\ Issue("addresses")
            /\ pc' = "fu_address_wait"
            /\ UNCHANGED <<i, lookup, formatted>>
  /\ UNCHANGED <<envVars, walletFile, existingWallets, balance, bcVars, transferResult,
                 sendArgs, saVars, sendAdaResult>>

\* The address information arrives in fetchUTXOs: an address without
\* transactions or not found has no UTXOs, any other failure is logged by the
\* outer catch; else await blockfrostAPI.addressesUtxos(address).
FetchUtxosAddressReply ==
  /\ pc = "fu_address_wait"
  /\ "addresses" \in inFlight
  /\ \E reply \in AddressReplies :
       IF reply.ok /\ reply.tx_count # 0
         THEN /\ SettleAndIssue("addresses", "addressesUtxos")
              /\ pc' = "fu_utxos_wait"
              /\ UNCHANGED <<i, lookup, formatted>>
         ELSE /\ Settle("addresses")
              /\ FetchUtxosReturn(<<>>,
                   Lookup("addresses", reply, fetchUTXOsReports(reply)))
  /\ UNCHANGED <<envVars, mwVars, balance, bcVars, transferResult, sendArgs, saVars,
                 sendAdaResult>>

\* The UTXOs arrive in fetchUTXOs: they are formatted; a failure is logged by the
\* outer catch and [] is returned.
FetchUtxosReply ==
  /\ pc = "fu_utxos_wait"
  /\ "addressesUtxos" \in inFlight
  /\ Settle("addressesUtxos")
  /\ \E reply \in UtxoReplies :
       FetchUtxosReturn(IF reply.ok THEN FormatUtxos(reply.utxos) ELSE <<>>,
                        Lookup("addressesUtxos", reply, ~reply.ok))
  /\ UNCHANGED <<envVars, mwVars, balance, bcVars, transferResult, sendArgs, saVars,
                 sendAdaResult>>

\* The loop of generateWalletSet is over; generateWallets logs the summary.
GenerateWalletsDone ==
  /\ pc = "gw_loop"
  /\ i > Len(walletTypes)
  /\ pc' = "done"
  /\ UNCHANGED <<envVars, mwVars, i, balance, lookup, bcVars, transferResult, sendArgs,
                 saVars, sendAdaResult, formatted, inFlight, calls>>

\* ------------------------------------------------------------ specification
Next ==
  \/ ManageWalletsStart
  \/ FetchBalanceCall("mw")
  \/ FetchBalanceReply("mw")
  \/ ManageWalletsLoopEnd
  \/ FetchBalanceCall("bc")
  \/ FetchBalanceReply("bc")
  \/ Decide
  \/ SendAdaStart
  \/ SendAdaUtxosReply
  \/ SendAdaBlockReply
  \/ SendAdaParamsReply
  \/ SendAdaBuildBody
  \/ SendAdaSign
  \/ SendAdaSubmit
  \/ SendAdaSubmitReply
  \/ GenerateWallet
  \/ FetchUtxosAddressReply
  \/ FetchUtxosReply
  \/ GenerateWalletsDone

Spec == Init /\ [][Next]_vars

\* ------------------------------------------------------------------- claims
Range(seq) == {seq[k] : k \in 1..Len(seq)}

\* sendAda has been called; its arguments.
SendAdaCalled == sendArgs # <<>>
SenderAddress == sendArgs[1].senderWallet.address
\* The spend in lovelace and the total the inputs must reach.
SpendAmount == AmountLovelace(sendArgs[1].amountAda)
Threshold == SpendAmount + feeBuffer

\* The lovelace an input of the body spends: the value of the fetched UTXO it names.
InputValue(input) ==
  LET u == CHOOSE u \in Range(utxos[1]) :
             u.tx_hash = input.tx_hash /\ u.output_index = input.output_index
  IN LovelaceOf(u.amount)

\* Lovelace of the first n fetched UTXOs.
PrefixSum(n) ==
  SumSeq([k \in 1..n |-> LovelaceOf(utxos[1][k].amount)])

\* C1: in every transaction body sendAda builds, the lovelace of the inputs of the
\* body equals the lovelace of its outputs (payment and change) plus the fee
\* written in the body, which is the fee buffer of 200000.
C1_Conservation ==
  txBody # <<>> =>
    /\ txBody[1].fee = 200000
    /\ SumSeq([k \in 1..Len(txBody[1].inputs) |-> InputValue(txBody[1].inputs[k])])
         = SumSeq([k \in 1..Len(txBody[1].outputs) |-> txBody[1].outputs[k].value])
           + txBody[1].fee

\* C1 witness: a body with several inputs, a change output and a spend other than 1 ADA.
C1_Witness ==
  /\ txBody # <<>>
  /\ Len(txBody[1].inputs) >= 2
  /\ Len(txBody[1].outputs) = 2
  /\ SpendAmount # LovelacePerAda

\* C2: when the fetched UTXO list, the empty list included, adds up to less than
\* the spend plus the fee buffer, sendAda has returned false with its no-UTXOs or
\* not-enough-funds message, and nothing is built, signed or submitted: no body, no
\* signed transaction, no further call of the Blockfrost client.
C2_InsufficientFunds ==
  (utxos # <<>> /\ PrefixSum(Len(utxos[1])) < Threshold) =>
    /\ sendAdaResult # <<>>
    /\ sendAdaResult[1].success = FALSE
    /\ sendAdaResult[1].log \in {"No UTXOs found", "Not enough funds"}
    /\ txOutputs = <<>> /\ txBody = <<>> /\ transaction = <<>>
    /\ calls["blocksLatest"] = 0 /\ calls["epochsParameters"] = 0
    /\ calls["txSubmit"] = 0
    /\ inFlight = {}

\* C2 witness: several UTXOs holding lovelace, all visited, and still not enough.
C2_Witness ==
  /\ utxos # <<>>
  /\ Len(utxos[1]) >= 2
  /\ PrefixSum(Len(utxos[1])) < Threshold
  /\ PrefixSum(Len(utxos[1])) > 0
  /\ sendAdaResult # <<>>
  /\ sendAdaResult[1].log = "Not enough funds"

\* The length of the shortest prefix of the fetched list that reaches the
\* threshold; the whole list when none does.
ShortestPrefix ==
  LET reaching == {n \in 1..Len(utxos[1]) : PrefixSum(n) >= Threshold}
  IN IF reaching = {} THEN Len(utxos[1])
     ELSE CHOOSE n \in reaching : \A m \in reaching : n <= m

\* C3: selection is first-fit in the order supplied: the inputs are the UTXOs of
\* the shortest prefix of the fetched list whose lovelace reaches the spend plus
\* the fee buffer, in that order, none skipped and none added behind it, and the
\* total is the lovelace of exactly those.
C3_FirstFit ==
  (utxos # <<>> /\ Len(utxos[1]) > 0) =>
    /\ txInputs = [k \in 1..ShortestPrefix |-> TransactionInput(utxos[1][k])]
    /\ totalInputAmount = PrefixSum(ShortestPrefix)

\* C3 witness: the threshold is reached by the second UTXO and a third is left out.
C3_Witness ==
  /\ utxos # <<>>
  /\ Len(utxos[1]) = 3
  /\ Len(txInputs) = 2
  /\ totalInputAmount >= Threshold

\* C4: in every body sendAda builds, with change = totalInput - spend - fee, the
\* outputs are the payment alone when change <= 0 and the payment followed by one
\* output of exactly change to the sender's address when change > 0; no output
\* has a zero or negative value.
C4_Change ==
  txBody # <<>> =>
    LET change  == totalInputAmount - SpendAmount - 200000
        outputs == txBody[1].outputs
    IN /\ Len(outputs) = (IF change > 0 THEN 2 ELSE 1)
       /\ outputs[1] = [address |-> sendArgs[1].receiverAddress, value |-> SpendAmount]
       /\ change > 0 => outputs[2] = [address |-> SenderAddress, value |-> change]
       /\ \A k \in 1..Len(outputs) : outputs[k].value > 0

\* C4 witness: a body whose inputs cover the spend and the fee exactly: no change output.
C4_Witness ==
  /\ txBody # <<>>
  /\ totalInputAmount = Threshold
  /\ Len(txBody[1].outputs) = 1

\* C5: the calls of sendAda are awaited one after the other: never two in flight;
\* a body exists only once the UTXOs, the latest block and the protocol parameters
\* have arrived; a signed transaction only once the body exists; the broadcast is
\* issued only once the transaction is signed, and nothing else is in flight then.
C5_Sequential ==
  /\ Cardinality(inFlight) <= 1
  /\ txBody # <<>> =>
       /\ utxos # <<>> /\ latestBlock # <<>>
       /\ calls["addressesUtxos"] = 1 /\ calls["blocksLatest"] = 1
       /\ calls["epochsParameters"] = 1
       /\ inFlight \cap {"addressesUtxos", "blocksLatest", "epochsParameters"} = {}
  /\ transaction # <<>> =>
       /\ txBody # <<>>
       /\ transaction[1].body = txBody[1]
  /\ calls["txSubmit"] > 0 => transaction # <<>>
  /\ (SendAdaCalled /\ txBody = <<>>) => calls["txSubmit"] = 0

\* C5 witness: the broadcast is in flight.
C5_Witness ==
  /\ SendAdaCalled
  /\ inFlight = {"txSubmit"}
  /\ transaction # <<>>

\* balanceCheckAndTransfer has compared the balances: it called sendAda or
\* returned that no transfer is needed.
Decided ==
  /\ entry = "part_000"
  /\ Len(existingWallets) >= 2
  /\ SendAdaCalled \/ transferResult # <<>>

\* The lovelace fetchBalance returned to balanceCheckAndTransfer for a wallet.
FetchedBalance(wallet) ==
  (CHOOSE w \in Range(walletsWithBalance) : w.address = wallet.address).balance.lovelace

\* C6: a balance lookup that failed for another reason than "not found" is not
\* replaced by a value: balanceCheckAndTransfer never goes on to call sendAda,
\* let alone to call the Blockfrost client for a transfer, with a balance that
\* stands in for a failed lookup.
C6_NoDecisionOnFailedLookup ==
  failedLookups # {} =>
    /\ ~SendAdaCalled
    /\ calls["addressesUtxos"] = 0
    /\ calls["txSubmit"] = 0

\* C7: with two stored wallets whose fetched balances differ, balanceCheckAndTransfer
\* calls sendAda once, from the wallet with the strictly higher balance to the
\* address of the other, for 1.0 ADA, and a body built for it pays exactly 1000000
\* lovelace to that address; with equal balances sendAda is not called and false
\* is returned.
C7_TransferDirection ==
  (Decided /\ Len(existingWallets) = 2) =>
    LET w1 == existingWallets[1]
        w2 == existingWallets[2]
        b1 == FetchedBalance(w1)
        b2 == FetchedBalance(w2)
        richer == IF b1 > b2 THEN w1 ELSE w2
        poorer == IF b1 > b2 THEN w2 ELSE w1
    IN /\ b1 # b2 =>
            /\ SendAdaCalled
            /\ sendArgs[1].senderWallet.address = richer.address
            /\ sendArgs[1].senderWallet.mnemonic = richer.mnemonic
            /\ sendArgs[1].receiverAddress = poorer.address
            /\ SpendAmount = 1000000
            /\ calls["addressesUtxos"] <= 1
            /\ calls["txSubmit"] <= 1
            /\ pc = "done" => calls["addressesUtxos"] = 1
            /\ txBody # <<>> =>
                 txBody[1].outputs[1] = [address |-> poorer.address, value |-> 1000000]
       /\ b1 = b2 =>
            /\ ~SendAdaCalled
            /\ transferResult = <<FALSE>>
            /\ calls["addressesUtxos"] = 0

\* C7 witness: the second stored wallet holds more, and the body pays the first.
C7_Witness ==
  /\ Decided
  /\ Len(existingWallets) = 2
  /\ FetchedBalance(existingWallets[2]) > FetchedBalance(existingWallets[1])
  /\ FetchedBalance(existingWallets[1]) > 0
  /\ txBody # <<>>

\* C8: the decision rests on one snapshot: while balanceCheckAndTransfer fetches,
\* nothing is decided and at most one lookup is in flight; once it has decided,
\* every wallet has its balance, each fetched once by the display loop and once
\* for the decision, no lookup is in flight, and none is issued afterwards, so
\* the count of lookups stays what it was at the comparison.
C8_SingleSnapshot ==
  /\ pc \in {"bc_loop", "bc_wait"} =>
       /\ ~SendAdaCalled /\ transferResult = <<>>
       /\ inFlight \subseteq {"addresses"}
       /\ Len(walletsWithBalance) = i - 1
  /\ Decided =>
       /\ Len(walletsWithBalance) = Len(existingWallets)
       /\ \A k \in 1..Len(existingWallets) :
            \E w \in Range(walletsWithBalance) : w.address = existingWallets[k].address
       /\ "addresses" \notin inFlight
       /\ calls["addresses"] =
            (IF projectId = "" THEN 0 ELSE 2 * Len(existingWallets))

\* C8 witness: sendAda runs on the decision, its first call in flight.
C8_Witness ==
  /\ Decided
  /\ SendAdaCalled
  /\ inFlight = {"addressesUtxos"}
  /\ calls["addresses"] = 4

\* The record saveWalletsToFile writes for the k-th created wallet.
ExpectedRecord(k) ==
  [name     |-> <<"Wallet", k>>,
   address  |-> created[k].address,
   mnemonic |-> created[k].mnemonic,
   type     |-> created[k].type]

C11_NoKeyZeroValue ==
  (projectId = "" /\ entry \in {"part_000", "wallet_manager.js", "index.js"}) =>
    /\ calls["addresses"] = 0
    /\ "addresses" \notin inFlight
    /\ balance = [ada |-> [int |-> 0, frac |-> 0], lovelace |-> 0]
    /\ \A k \in 1..Len(walletsWithBalance) :
         /\ walletsWithBalance[k].balance.lovelace = 0
         /\ walletsWithBalance[k].balance.ada = 0
    /\ failedLookups = {}
    /\ formatted = <<>>
    /\ entry = "index.js" => calls["addressesUtxos"] = 0
    /\ lookup.api \in {"none", "skipped"} /\ ~lookup.reported
    /\ (pc \in {"mw_loop", "bc_loop", "gw_loop"} /\ i > 1) => lookup.api = "skipped"

\* C11 witness: without a key, balanceCheckAndTransfer has looked up both stored
\* wallets; generateWalletSet, in another run, has looked up several addresses.
C11_Witness ==
  /\ projectId = ""
  /\ lookup.api = "skipped"
  /\ \/ entry = "part_000" /\ Len(walletsWithBalance) = 2
     \/ entry = "index.js" /\ i > 3

\* The stages of sendAda that can throw or be rejected, in the order of the code.
SendAdaStages ==
  <<"getPrivateKeyFromMnemonic", "addressesUtxos", "blocksLatest", "epochsParameters",
    "txSubmit">>
StageOf(api) == CHOOSE k \in 1..Len(SendAdaStages) : SendAdaStages[k] = api
SendAdaFailed == SendAdaCalled /\ lookup.api \in Range(SendAdaStages) /\ ~lookup.ok
SendAdaReturnedFalse == sendAdaResult # <<>> /\ ~sendAdaResult[1].success

\* C12: when a stage of sendAda fails, sendAda has returned false (to
\* balanceCheckAndTransfer too, that hands it on), no call is in flight, no call
\* of a later stage was made and nothing a later stage builds exists; the
\* broadcast is made only when every earlier stage succeeded, and a sendAda
\* that is over has always returned a boolean.
C12_ShortCircuit ==
  /\ SendAdaFailed =>
       /\ pc = "done"
       /\ inFlight = {}
       /\ sendAdaResult = <<[success |-> FALSE, log |-> "Error sending ADA"]>>
       /\ entry = "part_000" => transferResult = <<FALSE>>
       /\ \A k \in 2..Len(SendAdaStages) :
            calls[SendAdaStages[k]] =
              IF k <= StageOf(lookup.api) THEN 1 ELSE 0
       /\ StageOf(lookup.api) < 2 => utxos = <<>>
       /\ StageOf(lookup.api) < 3 =>
            txInputs = <<>> /\ txOutputs = <<>> /\ latestBlock = <<>>
       /\ StageOf(lookup.api) < 5 => txBody = <<>> /\ transaction = <<>>
  /\ SendAdaReturnedFalse =>
       /\ pc = "done"
       /\ inFlight = {}
       /\ calls["blocksLatest"] = 0 \/ SendAdaFailed
       /\ calls["txSubmit"] = 0 \/ (SendAdaFailed /\ lookup.api = "txSubmit")
  /\ calls["txSubmit"] > 0 =>
       /\ utxos # <<>> /\ txInputs # <<>> /\ latestBlock # <<>>
       /\ txBody # <<>> /\ transaction # <<>>
       /\ \A k \in 2..Len(SendAdaStages) : calls[SendAdaStages[k]] = 1
  /\ (SendAdaCalled /\ pc = "done") => sendAdaResult # <<>>

C12_Witness ==
  /\ SendAdaFailed
  /\ \/ entry = "part_000" /\ lookup.api = "epochsParameters"
     \/ entry = "sendAda" /\ lookup.api = "getPrivateKeyFromMnemonic"


\* The balance lookups a run of manageWallets has issued when its control is at
\* pc and i: one for each wallet the display loop has reached and, in part_000,
\* one more for each wallet the loop of balanceCheckAndTransfer has reached.
AddressLookupsDue ==
  LET n == Len(existingWallets)
  IN CASE pc = "mw_start" -> 0
       [] pc = "mw_loop"  -> i - 1
       [] pc = "mw_wait"  -> i
       [] pc = "bc_loop"  -> n + i - 1
       [] pc = "bc_wait"  -> n + i
       [] pc = "done"     -> IF entry = "part_000" /\ n >= 2 THEN 2 * n ELSE n
       [] OTHER           -> 2 * n

\* C13: in a run of manageWallets the broadcast is called at most once, and so
\* are the UTXO, latest-block and parameter calls; a call that failed was made
\* once and nothing is in flight after it; the number of balance lookups made
\* is the one the position in the loops accounts for, whatever the replies were.
C13_NoRetry ==
  entry \in {"part_000", "wallet_manager.js"} =>
    /\ calls["txSubmit"] <= 1
    /\ calls["addressesUtxos"] <= 1
    /\ calls["blocksLatest"] <= 1
    /\ calls["epochsParameters"] <= 1
    /\ SendAdaFailed => calls[lookup.api] = 1 /\ inFlight = {}
    /\ calls["addresses"] = IF NoApiKey THEN 0 ELSE AddressLookupsDue
    /\ (lookup.api = "addresses" /\ ~lookup.ok /\ pc = "done") => inFlight = {}

\* C13 witness: the broadcast was rejected and the run is over after one call of it.
C13_Witness ==
  /\ entry = "part_000"
  /\ pc = "done"
  /\ SendAdaFailed /\ lookup.api = "txSubmit"
  /\ calls["txSubmit"] = 1


\* C14: a signed transaction of sendAda has exactly one witness; it is made with
\* the spending key (role 0, index 0) derived from the sender's mnemonic, the
\* mnemonic the spent address derives from, over the hash of the body; that body
\* is the one built from the inputs, the outputs and the slot, the one in the
\* signed transaction and the one in the bytes handed to the broadcast; the
\* metadata is undefined.
C14_SingleWitness ==
  transaction # <<>> =>
    LET tx == transaction[1]
        sender == sendArgs[1].senderWallet
    IN /\ Len(tx.witnesses) = 1
       /\ tx.witnesses[1].vkey = <<"m/1852'/1815'/0'/0/0", sender.mnemonic>>
       /\ sender.address = <<"addr_test", sender.mnemonic>>
       /\ tx.witnesses[1].signed = <<"blake2b256", tx.body>>
       /\ tx.body = txBody[1]
       /\ txBody[1] = [inputs |-> txInputs, outputs |-> txOutputs, fee |-> feeBuffer,
                       ttl |-> latestBlock[1].slot + TtlWindow]
       /\ tx.metadata = "undefined"
       /\ txBytes = <<<<"cbor", tx>>>>
       /\ txBytes[1][2].body = txBody[1]

\* C14 witness: a transaction signed for a transfer of manageWallets was broadcast
\* and accepted.
C14_Witness ==
  /\ entry = "part_000"
  /\ transaction # <<>> /\ txBytes # <<>>
  /\ sendAdaResult # <<>> /\ sendAdaResult[1].success


\* C15: a wallet file that exists when manageWallets starts is never written by
\* the run: at every moment it is what it was at the start, also when it could
\* not be read or parsed.
C15_ExistingFileUntouched ==
  (entry \in {"part_000", "wallet_manager.js"} /\ fileAtStart.exists) =>
    walletFile = fileAtStart


\* C16: without an API key a run of manageWallets makes no call of the UTXO,
\* latest-block, parameter or broadcast collaborator (nor of the balance one),
\* sendAda is not called and nothing of a transaction is built; every balance
\* compared is zero, and the decision, once taken, is that no transfer is made.
C16_NoKeyNoTransfer ==
  (entry \in {"part_000", "wallet_manager.js"} /\ projectId = "") =>
    /\ \A api \in {"addresses", "addressesUtxos", "blocksLatest", "epochsParameters",
                    "txSubmit"} : calls[api] = 0
    /\ inFlight = {}
    /\ ~SendAdaCalled
    /\ pc \in {"mw_start", "mw_loop", "bc_loop", "done"}
    /\ utxos = <<>> /\ txInputs = <<>> /\ txOutputs = <<>> /\ latestBlock = <<>>
    /\ txBody = <<>> /\ transaction = <<>> /\ txBytes = <<>>
    /\ sendAdaResult = <<>>
    /\ \A k \in 1..Len(walletsWithBalance) : walletsWithBalance[k].balance.ada = 0
    /\ Decided => transferResult = <<FALSE>>
    /\ (pc = "done" /\ entry = "part_000" /\ existingWallets # <<>>) =>
         transferResult = <<FALSE>>

\* C16 witness: two stored wallets were compared without an API key and no
\* transfer was decided.
C16_Witness ==
  /\ entry = "part_000"
  /\ projectId = ""
  /\ pc = "done"
  /\ Len(walletsWithBalance) = 2
  /\ transferResult = <<FALSE>>

====
